---- MODULE Spec2Model ----
(***************************************************************************)
(* Smart Helpdesk: the ticket triage pipeline (services/agentService.js),  *)
(* the providers it calls (services/llmService.js), the stores it works on *)
(* (models/index.js) and the route handlers that start it or change        *)
(* tickets beside it (routes/agents.js, routes/tickets.js,                 *)
(* routes/config.js).                                                      *)
(*                                                                         *)
(* Confidences and thresholds are hundredths: 78 stands for 0.78.          *)
(* A ticket's text is the triple of keyword match counts                   *)
(* <<billing, tech, shipping>> that the rule-based classifier derives      *)
(* from it. A reply text is [kind, cites]: which template or author        *)
(* produced it and the articles it cites.                                  *)
(*                                                                         *)
(* Seven specifications:                                                   *)
(*   Spec      the server: its routes, the callers of the service and the  *)
(*             runs of triageTicket, each await a step;                    *)
(*   StepSpec  the step methods of AgentService applied one after the      *)
(*             other by a driver that hands _executeDecision the decision  *)
(*             _makeTriageDecision computes. Under Spec no run gets past   *)
(*             its first audit write (AuditActionEnum), so the steps       *)
(*             behind it are exercised here, with STUB_MODE=true and the   *)
(*             edit of a suggestion's draft beside them;                   *)
(*   RemoteSpec  the same steps with the remote provider selected and     *)
(*             every outcome of its two calls;                             *)
(*   RaceSpec  the server's triage triggers with two invocations of the    *)
(*             pipeline in flight;                                         *)
(*   ClassifySpec  the classify step alone on every text of up to          *)
(*             MaxMatch keywords per category;                             *)
(*   OpsSpec   the steps while the settings, close and reply routes act;   *)
(*   TraceSpec  the steps of runs whose caller may supply the trace id,    *)
(*             with the remote provider.                                   *)
(***************************************************************************)
EXTENDS Integers, Sequences, FiniteSets, TLC

VARIABLES
    tickets,      \* Ticket collection: ticket id -> document
    suggestions,  \* AgentSuggestion collection, in creation order
    auditLog,     \* AuditLog collection, in insertion order
    config,       \* the singleton Config document, or none
    users,        \* ids of the User documents, in insertion order
    env,          \* process.env: AUTO_CLOSE_ENABLED, CONFIDENCE_THRESHOLD, STUB_MODE
    runs,         \* invocations of AgentService.triageTicket / retryTriage
    nextTrace,    \* source of fresh trace ids (crypto.randomUUID)
    response      \* the answer to the latest PUT /api/agent/suggestion/:id

vars == <<tickets, suggestions, auditLog, config, users, env, runs, nextTrace,
          response>>

----------------------------------------------------------------------------
(* Bounds of the model *)

MaxTicket == 1       \* ticket ids 1..MaxTicket
MaxRun == 1          \* invocations of the pipeline that are followed
MaxLog == 2          \* audit entries after which the lifecycle routes stop
MaxReplies == 1      \* replies after which the reply route stops
MaxStepRun == 2      \* applications of the step methods, one after the other
MaxAttempts == 3     \* the largest maxRetries a caller hands to retryTriage
MaxEdits == 1        \* edits of drafts that are stored
MaxRemoteRun == 1    \* applications of the step methods with the remote provider
MaxRaceRun == 2      \* invocations of the pipeline that may overlap
MaxMatch == 4        \* keywords of one category a text contains
MaxClassifyRun == 1  \* applications of the classify step alone
MaxOpsRun == 2       \* runs of the steps between which the routes act
MaxTraceRun == 2     \* runs a caller starts with a trace id of its choice

TicketIds == 1..MaxTicket
RunIds == 1..MaxRun
StepRunIds == 1..MaxStepRun

----------------------------------------------------------------------------
(* models/index.js *)

Categories == {"billing", "tech", "shipping", "other"}

TicketStatuses == {"open", "triaged", "waiting_human", "resolved", "closed"}

\* The actions the audit store accepts: auditLogSchema.action.enum
AuditActionEnum ==
    {"TICKET_CREATED", "AGENT_CLASSIFIED", "KB_RETRIEVED", "DRAFT_GENERATED",
     "AUTO_CLOSED", "ASSIGNED_TO_HUMAN", "REPLY_SENT", "TICKET_REOPENED",
     "TICKET_CLOSED", "SUGGESTION_EDITED"}

\* userSchema.role of the accounts of the model. "system" is the account
\* with the mail address system@helpdesk.local: seed.js and
\* _getSystemUserId both give it the role agent.
NoUser == "nobody"
SystemUser == "system"
UserIds == {"admin1", "agent1", "cust1", SystemUser}
Role(u) ==
    CASE u = "admin1" -> "admin"
      [] u = "agent1" -> "agent"
      [] u = SystemUser -> "agent"
      [] OTHER -> "user"

Range(s) == {s[i] : i \in 1..Len(s)}

\* Texts a ticket may carry, as keyword match counts <<billing, tech, shipping>>
Texts == {<<0, 0, 0>>, <<2, 0, 0>>}

NoTicket ==
    [exists |-> FALSE, text |-> <<0, 0, 0>>, category |-> "other",
     status |-> "open", assignee |-> NoUser, agentSuggestionId |-> 0,
     replies |-> <<>>]

\* new Ticket({title, description, category, createdBy, status: 'open'})
NewTicket(text, category) ==
    [exists |-> TRUE, text |-> text, category |-> category, status |-> "open",
     assignee |-> NoUser, agentSuggestionId |-> 0, replies |-> <<>>]

NoConfig == [exists |-> FALSE, autoCloseEnabled |-> FALSE, confidenceThreshold |-> 0]

\* configSchema defaults: a document created without values
ConfigDefaultThreshold == 78
NewConfig == [exists |-> TRUE, autoCloseEnabled |-> TRUE,
              confidenceThreshold |-> ConfigDefaultThreshold]

Thresholds == {50, ConfigDefaultThreshold}

\* The knowledge base: published articles and the category tag each carries
ArticleIds == {1, 2}
ArticleTag(a) == IF a = 1 THEN "billing" ELSE "tech"

----------------------------------------------------------------------------
(* Errors: <<name, message>> *)

NoError == <<"none", "">>
NotFoundError == <<"Error", "Ticket not found">>
DbError == <<"MongoError", "injected">>
NullError == <<"TypeError", "Cannot read properties of null">>
\* mongoose rejects a save whose action is not in the schema's enum
ValidationError(action) == <<"ValidationError", action>>
\* An error that names the attempts and drops the last message
RetryErrorBare(maxRetries, err) ==
    <<"Error", "Triage failed after attempts", maxRetries, "">>
\* new Error(`Triage failed after ${maxRetries} attempts: ${lastError.message}`)
RetryError(maxRetries, err) ==
    <<"Error", "Triage failed after attempts", maxRetries, err[2]>>

----------------------------------------------------------------------------
(* Reply texts *)

HumanText == [kind |-> "human", cites |-> <<>>]
\* _getDraftFromLogs: "Thank you for your inquiry. Our team is reviewing your request."
DefaultDraft == [kind |-> "default", cites |-> <<>>]

\* req.body.draftReply of PUT /api/agent/suggestion/:suggestionId
EditedText == [kind |-> "edited", cites |-> <<>>]

\* LLMProvider._stubDraft: the fixed opening, then at most the first two
\* article titles with [1], [2]; without articles the generic message
StubDraft(articles) ==
    [kind |-> "stub",
     cites |-> IF Len(articles) > 2 THEN SubSeq(articles, 1, 2) ELSE articles]

\* A draft the remote model wrote
RemoteDraft == [kind |-> "remote", cites |-> <<>>]

DraftReplies(stubMode) ==
    IF stubMode THEN {"stub"} ELSE {"rejected", "unparseable", "json"}

\* LLMProvider.draft: the parsed content when the call and the parse go
\* through, _stubDraft in stub mode and from the catch block
LLMProviderDraft(articles, reply) ==
    IF reply = "json" THEN RemoteDraft ELSE StubDraft(articles)

----------------------------------------------------------------------------
(* The audit store *)

NoMeta ==
    [error |-> NoError, predictedCategory |-> "none", confidence |-> 0,
     articleIds |-> <<>>, suggestionId |-> 0, assigneeId |-> NoUser]

\* timestamp: new Date() (Date.now by default), taken when the entry is
\* built; every write is awaited before the next entry is built, and the
\* clock has moved on by then
AuditEntry(ticketId, traceId, actor, action, meta) ==
    [ticketId |-> ticketId, traceId |-> traceId, actor |-> actor,
     action |-> action, meta |-> meta, timestamp |-> Len(auditLog) + 1]

\* auditLog.save() validates the document against the schema first
AuditAccepts(action) == action \in AuditActionEnum

\* AuditLog.findOne({ticketId, traceId, action}): positions of the matches
Matching(ticketId, traceId, action) ==
    {i \in 1..Len(auditLog) :
        /\ auditLog[i].ticketId = ticketId
        /\ auditLog[i].traceId = traceId
        /\ auditLog[i].action = action}

Least(S) == CHOOSE i \in S : \A j \in S : i <= j

\* .sort({timestamp: 1}): the entries at the positions S, earliest first
RECURSIVE SortAscending(_)
SortAscending(S) ==
    IF S = {} THEN <<>>
    ELSE LET first == CHOOSE i \in S :
                         \A j \in S : auditLog[i].timestamp <= auditLog[j].timestamp
         IN  <<auditLog[first]>> \o SortAscending(S \ {first})

\* .sort({timestamp: -1}): latest first, as GET /api/audit/tickets/:ticketId sorts
RECURSIVE SortDescending(_)
SortDescending(S) ==
    IF S = {} THEN <<>>
    ELSE LET first == CHOOSE i \in S :
                         \A j \in S : auditLog[i].timestamp >= auditLog[j].timestamp
         IN  <<auditLog[first]>> \o SortDescending(S \ {first})

\* A read of a trace that sorts latest first
ReadTraceDescending(traceId) ==
    SortDescending({i \in 1..Len(auditLog) : auditLog[i].traceId = traceId})
\* GET /api/audit/trace/:traceId: AuditLog.find({traceId}).sort({timestamp: 1})
ReadTrace(traceId) ==
    SortAscending({i \in 1..Len(auditLog) : auditLog[i].traceId = traceId})

\* The trace id the lifecycle routes log under (req.traceId)
ReqTrace == 0

----------------------------------------------------------------------------
(* services/llmService.js: the rule-based classifier *)

Max3(a, b, c) ==
    IF a >= b /\ a >= c THEN a ELSE IF b >= c THEN b ELSE c

Min2(a, b) == IF a <= b THEN a ELSE b

\* A confidence that grows without the cap
StubConfidenceUncapped(matches) == 60 + matches * 10
\* Math.min(0.9, 0.6 + (matches * 0.1))
StubConfidence(matches) == Min2(90, 60 + matches * 10)

\* A classifier that resolves a tie by the reverse order
StubClassifyLastTie(text) ==
    LET maxMatches == Max3(text[1], text[2], text[3])
    IN  IF maxMatches = 0 THEN [predictedCategory |-> "other", confidence |-> 50]
        ELSE [predictedCategory |->
                 IF text[3] = maxMatches THEN "shipping"
                 ELSE IF text[2] = maxMatches THEN "tech" ELSE "billing",
              confidence |-> Min2(90, 60 + maxMatches * 10)]
StubClassify(text) ==
    LET billingMatches == text[1]
        techMatches == text[2]
        shippingMatches == text[3]
        maxMatches == Max3(billingMatches, techMatches, shippingMatches)
    IN  IF maxMatches > 0
        THEN IF billingMatches = maxMatches
             THEN [predictedCategory |-> "billing",
                   confidence |-> StubConfidence(billingMatches)]
             ELSE IF techMatches = maxMatches
             THEN [predictedCategory |-> "tech",
                   confidence |-> StubConfidence(techMatches)]
             ELSE [predictedCategory |-> "shipping",
                   confidence |-> StubConfidence(shippingMatches)]
        ELSE [predictedCategory |-> "other", confidence |-> 50]

NoClassification == [predictedCategory |-> "none", confidence |-> 0]

\* A confidence the reply does not carry: undefined, which no comparison
\* with a number finds greater or equal
Missing == 0 - 1

\* What the remote call ends with. axios.post rejects on a transport error,
\* a status outside 2xx and the 30 s timeout ("rejected"); JSON.parse throws
\* on content that is no JSON ("unparseable"); "json" is content that parses.
RemoteFailures == {"rejected", "unparseable"}

\* Parsed contents: a classification of the prompt's schema, a category
\* outside the four, a confidence above 1, and an object without the fields
ClassifyBodies ==
    {[predictedCategory |-> "tech", confidence |-> 95],
     [predictedCategory |-> "refund", confidence |-> 90],
     [predictedCategory |-> "billing", confidence |-> 150],
     [predictedCategory |-> "none", confidence |-> Missing]}

\* if (this.stubMode) no request is made
ClassifyReplies(stubMode) ==
    IF stubMode THEN {[kind |-> "stub", body |-> NoClassification]}
    ELSE {[kind |-> k, body |-> NoClassification] : k \in RemoteFailures}
         \cup {[kind |-> "json", body |-> b] : b \in ClassifyBodies}

\* A provider whose catch block has no fallback
ClassifyNoFallback(text, reply) ==
    IF reply.kind = "stub" THEN StubClassify(text) ELSE reply.body
\* LLMProvider.classify: { ...JSON.parse(content), modelInfo } when the call
\* and the parse go through, _stubClassify(text) in stub mode and from the
\* catch block
LLMProviderClassify(text, reply) ==
    IF reply.kind = "json" THEN reply.body ELSE StubClassify(text)

\* KBSearchService.search(query, category, 3): published articles, those
\* tagged with the category unless it is other; which of them the text
\* search matches depends on the wording, and an error gives []
SearchResults(category) ==
    {<<>>} \cup {<<a>> : a \in {b \in ArticleIds :
                                  \/ category \in {"other", "none"}
                                  \/ ArticleTag(b) = category}}

----------------------------------------------------------------------------
(* services/agentService.js: the decision rule of _makeTriageDecision *)

\* Config.findOne() || { autoCloseEnabled: process.env.AUTO_CLOSE_ENABLED === 'true',
\*                       confidenceThreshold: parseFloat(process.env.CONFIDENCE_THRESHOLD) || 0.78 }
EffectiveConfig ==
    IF config.exists THEN config
    ELSE [exists |-> FALSE, autoCloseEnabled |-> env.autoClose,
          confidenceThreshold |-> IF env.threshold = 0 THEN 78 ELSE env.threshold]

ShouldAutoClose(cfg, confidence) ==
    cfg.autoCloseEnabled /\ confidence >= cfg.confidenceThreshold

DecisionAction(cfg, confidence) ==
    IF ShouldAutoClose(cfg, confidence) THEN "auto_close" ELSE "assign_human"

----------------------------------------------------------------------------
(* Invocations of the pipeline *)

MaxRetries == 3

IdleRun ==
    [pc |-> "idle", via |-> "none", ticketId |-> 0, trace |-> 0,
     fault |-> "none", doc |-> NoTicket, steps |-> <<>>,
     classification |-> NoClassification, articles |-> <<>>,
     draft |-> DefaultDraft, decision |-> "none", logDraft |-> DefaultDraft,
     suggestionId |-> 0,
     result |-> "none", raised |-> NoError, error |-> NoError,
     attempt |-> 0, attempts |-> 0, waits |-> <<>>,
     traces |-> <<>>, lastError |-> NoError,
     remote |-> "none", remoteDraft |-> "none",
     loaded |-> NoTicket, overlaps |-> FALSE]

\* A run not yet used, the lowest one first
FreeRun(r) ==
    /\ runs[r].pc = "idle"
    /\ \A q \in DOMAIN runs : q < r => runs[q].pc # "idle"

\* Another invocation for the same ticket has begun and has not returned
Overlapping(ticketId) ==
    \E q \in DOMAIN runs :
        runs[q].pc \notin {"idle", "done"} /\ runs[q].ticketId = ticketId

\* const trace = traceId || crypto.randomUUID(); retryTriage passes a fresh one
StartedRun(via, ticketId, trace, fault, attempts) ==
    [IdleRun EXCEPT !.pc = "load", !.via = via, !.ticketId = ticketId,
                    !.trace = trace, !.fault = fault,
                    !.attempt = 1, !.attempts = attempts,
                    !.traces = <<trace>>,
                    !.overlaps = Overlapping(ticketId)]

TypeOK ==
    /\ \A t \in TicketIds : tickets[t].status \in TicketStatuses
    /\ \A t \in TicketIds : tickets[t].category \in Categories
    /\ nextTrace \in Nat
    /\ Range(users) \subseteq UserIds

\* The accounts seed.js creates, in its order, and a deployment without agents
SeedUsers == <<"admin1", "agent1", "cust1", SystemUser>>
UserSets == {SeedUsers, <<"admin1", "cust1">>}

\* process.env with none of the variables set: STUB_MODE === 'true' is false
NoEnv == [autoClose |-> FALSE, threshold |-> 0, stubMode |-> FALSE]
\* STUB_MODE=true
StubEnv == [NoEnv EXCEPT !.stubMode = TRUE]

\* res.status(code) of the edit-draft route, and the suggestion it was about
NoResponse == [code |-> 0, suggestionId |-> 0]

Init ==
    /\ tickets \in [TicketIds -> {NoTicket} \cup {NewTicket(text, "other") : text \in Texts}]
    /\ suggestions = <<>>
    /\ auditLog = <<>>
    /\ config \in {NoConfig, NewConfig}
    /\ users \in UserSets
    /\ env = NoEnv
    /\ runs = [r \in RunIds |-> IdleRun]
    /\ nextTrace = 1
    /\ response = NoResponse

----------------------------------------------------------------------------
(* services/agentService.js: triageTicket, as far as a run gets *)

\* A catch handler that writes its failure entry whether or not a ticket was loaded
ShouldLogFailureAlways(doc) == TRUE
\* catch (error) { ... if (ticket) { await this._logAudit(.., 'TRIAGE_FAILED', ..) }
ShouldLogFailure(doc) == doc.exists

\* A wait that starts at one second
DelayFromOne(attempt) == (2 ^ (attempt - 1)) * 1000
\* const delay = Math.pow(2, attempt) * 1000, in milliseconds
Delay(attempt) == (2 ^ attempt) * 1000

\* The error leaves triageTicket. retryTriage catches it and, with attempts
\* left, waits Math.pow(2, attempt) * 1000 ms before the next one; after the
\* last attempt it throws "Triage failed after N attempts: <last message>".
Thrown(run, err) ==
    IF run.via = "retry" /\ run.attempt < run.attempts
    THEN [run EXCEPT !.pc = "backoff", !.error = err, !.lastError = err,
                     !.waits = Append(@, Delay(run.attempt))]
    ELSE [run EXCEPT !.pc = "done", !.result = "error", !.lastError = err,
                     !.error = IF run.via = "retry"
                               THEN RetryError(run.attempts, err) ELSE err]

\* ticket = await Ticket.findById(ticketId); if (!ticket) throw new Error('Ticket not found')
Load(r) ==
    LET run == runs[r]
        found == tickets[run.ticketId]
        faulty == run.fault = "load" \/ (run.fault = "loadOnce" /\ run.attempt = 1)
        err == IF faulty THEN DbError ELSE NotFoundError
        failed == [run EXCEPT !.raised = err]
        after == IF ~faulty /\ found.exists
                 THEN [run EXCEPT !.pc = "plan", !.doc = found, !.loaded = found]
                 ELSE IF ShouldLogFailure(run.doc)
                      THEN [failed EXCEPT !.pc = "catch"]
                      ELSE Thrown(failed, err)
    IN  /\ run.pc = "load"
        /\ runs' = [runs EXCEPT ![r] = after]
        /\ UNCHANGED <<response, env, tickets, suggestions, auditLog, config, users, nextTrace>>

\* Step 1: const plan = this._createTriagePlan(ticket);
\*         await this._logAudit(ticket._id, trace, 'system', 'TRIAGE_STARTED', { plan })
Plan(r) ==
    LET run == runs[r]
        ran == [run EXCEPT !.steps = Append(@, "plan")]
    IN  /\ run.pc = "plan"
        /\ IF AuditAccepts("TRIAGE_STARTED")
           THEN /\ auditLog' = Append(auditLog,
                       AuditEntry(run.ticketId, run.trace, "system", "TRIAGE_STARTED", NoMeta))
                /\ runs' = [runs EXCEPT ![r] = [ran EXCEPT !.pc = "classify"]]
           ELSE /\ auditLog' = auditLog
                /\ runs' = [runs EXCEPT ![r] =
                       [ran EXCEPT !.pc = "catch",
                                   !.raised = ValidationError("TRIAGE_STARTED")]]
        /\ UNCHANGED <<response, env, tickets, suggestions, config, users, nextTrace>>

\* A catch that puts the ticket back as the run loaded it
CatchRollingBack(r) ==
    LET run == runs[r]
        logged == AuditAccepts("TRIAGE_FAILED")
        after == Thrown(run, IF logged THEN run.raised
                             ELSE ValidationError("TRIAGE_FAILED"))
    IN  /\ run.pc = "catch"
        /\ auditLog' =
             IF logged
             THEN Append(auditLog,
                    AuditEntry(run.ticketId, run.trace, "system", "TRIAGE_FAILED",
                               [NoMeta EXCEPT !.error = run.raised]))
             ELSE auditLog
        /\ runs' = [runs EXCEPT ![r] = after]
        /\ tickets' = [tickets EXCEPT ![run.ticketId] =
                          IF run.loaded.exists THEN run.loaded ELSE @]
        /\ UNCHANGED <<response, env, suggestions, config, users, nextTrace>>

\* catch (error): log TRIAGE_FAILED with error.message, then throw error
Catch(r) ==
    LET run == runs[r]
        logged == AuditAccepts("TRIAGE_FAILED")
        after == Thrown(run, IF logged THEN run.raised
                             ELSE ValidationError("TRIAGE_FAILED"))
    IN  /\ run.pc = "catch"
        /\ auditLog' =
             IF logged
             THEN Append(auditLog,
                    AuditEntry(run.ticketId, run.trace, "system", "TRIAGE_FAILED",
                               [NoMeta EXCEPT !.error = run.raised]))
             ELSE auditLog
        /\ runs' = [runs EXCEPT ![r] = after]
        /\ UNCHANGED <<response, env, tickets, suggestions, config, users, nextTrace>>

\* retryTriage: the wait is over; attempt++, a new crypto.randomUUID()
Backoff(r) ==
    LET run == runs[r]
    IN  /\ run.pc = "backoff"
        /\ runs' = [runs EXCEPT ![r] =
               [run EXCEPT !.pc = "load", !.attempt = @ + 1, !.trace = nextTrace,
                           !.traces = Append(@, nextTrace),
                           !.doc = NoTicket, !.loaded = NoTicket,
                           !.steps = <<>>, !.raised = NoError,
                           !.error = NoError]]
        /\ nextTrace' = nextTrace + 1
        /\ UNCHANGED <<response, env, tickets, suggestions, auditLog, config, users>>

----------------------------------------------------------------------------
(* services/agentService.js: the steps behind the plan. Each step writes    *)
(* its audit entry last; run.fault names the step whose write the database *)
(* fails, and a write the schema rejects fails by itself.                  *)

\* await auditLog.save(): the error it ends with, NoError if it is stored
LogError(run, point, action) ==
    IF run.fault = point THEN DbError
    ELSE IF AuditAccepts(action) THEN NoError
    ELSE ValidationError(action)

Failed(run, err) == [run EXCEPT !.pc = "catch", !.raised = err]

\* ticket.save() validates category against its enum
TicketAccepts(category) == category \in Categories

\* An update of the category from 0.7 on
ShouldUpdateCategoryFrom(confidence) == confidence >= 70
\* if (classification.confidence > 0.7)
ShouldUpdateCategory(confidence) == confidence > 70

\* Step 2: _classifyTicket. ticket.category is set and saved when the
\* confidence is above 0.7, before the audit write.
Classify(r) ==
    LET run == runs[r]
        t == run.ticketId
        ran == [run EXCEPT !.steps = Append(@, "classify")]
    IN  /\ run.pc = "classify"
        /\ \E reply \in ClassifyReplies(env.stubMode) :
             LET c == LLMProviderClassify(run.doc.text, reply)
                 high == ShouldUpdateCategory(c.confidence)
                 doc == IF high THEN [run.doc EXCEPT !.category = c.predictedCategory]
                        ELSE run.doc
                 saved == high /\ TicketAccepts(c.predictedCategory)
                 err == IF high /\ ~saved THEN ValidationError("category")
                        ELSE LogError(run, "classify", "AGENT_CLASSIFIED")
             IN  /\ tickets' = IF saved
                               THEN [tickets EXCEPT ![t].category = c.predictedCategory]
                               ELSE tickets
                 /\ auditLog' =
                      IF err = NoError
                      THEN Append(auditLog,
                             AuditEntry(t, run.trace, "system", "AGENT_CLASSIFIED",
                                 [NoMeta EXCEPT !.predictedCategory = c.predictedCategory,
                                                !.confidence = c.confidence]))
                      ELSE auditLog
                 /\ runs' = [runs EXCEPT ![r] =
                        IF err = NoError
                        THEN [ran EXCEPT !.pc = "retrieve", !.doc = doc,
                                         !.classification = c,
                                         !.remote = reply.kind]
                        ELSE Failed([ran EXCEPT !.doc = doc, !.classification = c,
                                                !.remote = reply.kind], err)]
        /\ UNCHANGED <<response, env, suggestions, config, users, nextTrace>>

\* Step 3: _retrieveKBArticles
Retrieve(r) ==
    LET run == runs[r]
        ran == [run EXCEPT !.steps = Append(@, "retrieve")]
        err == LogError(run, "retrieve", "KB_RETRIEVED")
    IN  /\ run.pc = "retrieve"
        /\ \E articles \in SearchResults(run.classification.predictedCategory) :
             /\ auditLog' =
                  IF err = NoError
                  THEN Append(auditLog,
                         AuditEntry(run.ticketId, run.trace, "system", "KB_RETRIEVED",
                             [NoMeta EXCEPT !.articleIds = articles]))
                  ELSE auditLog
             /\ runs' = [runs EXCEPT ![r] =
                    IF err = NoError
                    THEN [ran EXCEPT !.pc = "draft", !.articles = articles]
                    ELSE Failed(ran, err)]
        /\ UNCHANGED <<response, env, tickets, suggestions, config, users, nextTrace>>

\* Step 4: _draftReply. The entry records the draft's length, not its text.
Draft(r) ==
    LET run == runs[r]
        ran == [run EXCEPT !.steps = Append(@, "draft")]
        err == LogError(run, "draft", "DRAFT_GENERATED")
    IN  /\ run.pc = "draft"
        /\ auditLog' =
             IF err = NoError
             THEN Append(auditLog,
                    AuditEntry(run.ticketId, run.trace, "system", "DRAFT_GENERATED", NoMeta))
             ELSE auditLog
        /\ \E reply \in DraftReplies(env.stubMode) :
             runs' = [runs EXCEPT ![r] =
               IF err = NoError
               THEN [ran EXCEPT !.pc = "decide", !.remoteDraft = reply,
                                !.draft = LLMProviderDraft(run.articles, reply)]
               ELSE Failed([ran EXCEPT !.remoteDraft = reply], err)]
        /\ UNCHANGED <<response, env, tickets, suggestions, config, users, nextTrace>>

\* Step 5: _makeTriageDecision. The decision is returned after its audit write.
Decide(r) ==
    LET run == runs[r]
        ran == [run EXCEPT !.steps = Append(@, "decide")]
        action == DecisionAction(EffectiveConfig, run.classification.confidence)
        err == LogError(run, "decide", "DECISION_MADE")
    IN  /\ run.pc = "decide"
        /\ auditLog' =
             IF err = NoError
             THEN Append(auditLog,
                    AuditEntry(run.ticketId, run.trace, "system", "DECISION_MADE",
                        [NoMeta EXCEPT !.confidence = run.classification.confidence]))
             ELSE auditLog
        /\ runs' = [runs EXCEPT ![r] =
               IF err = NoError
               THEN [ran EXCEPT !.pc = "execute", !.decision = action]
               ELSE Failed(ran, err)]
        /\ UNCHANGED <<response, env, tickets, suggestions, config, users, nextTrace>>

\* Article.find({_id: {$in: ids}}): the articles found, in the store's order
RECURSIVE ArticlesIn(_, _)
ArticlesIn(ids, from) ==
    IF from > Cardinality(ArticleIds) THEN <<>>
    ELSE (IF from \in ArticleIds /\ from \in Range(ids) THEN <<from>> ELSE <<>>)
         \o ArticlesIn(ids, from + 1)

\* _getArticlesFromLogs
GetArticlesFromLogs(ticketId, traceId) ==
    LET found == Matching(ticketId, traceId, "KB_RETRIEVED")
    IN  IF found = {} THEN <<>>
        ELSE ArticlesIn(auditLog[Least(found)].meta.articleIds, 1)

\* AgentSuggestion.findOne({ticketId}).sort({createdAt: -1})
SuggestionsOf(ticketId) ==
    {i \in 1..Len(suggestions) : suggestions[i].ticketId = ticketId}

Greatest(S) == CHOOSE i \in S : \A j \in S : j <= i

\* _getDraftFromLogs: with a DRAFT_GENERATED entry of this run and an earlier
\* suggestion for the ticket, that suggestion's text; else the fixed sentence
GetDraftFromLogs(ticketId, traceId) ==
    IF /\ Matching(ticketId, traceId, "DRAFT_GENERATED") # {}
       /\ SuggestionsOf(ticketId) # {}
    THEN suggestions[Greatest(SuggestionsOf(ticketId))].draftReply
    ELSE DefaultDraft

\* suggestion.save() validates predictedCategory against its enum and
\* confidence against min 0, max 1; both are required
SuggestionAccepts(suggestion) ==
    /\ suggestion.predictedCategory \in Categories
    /\ suggestion.confidence \in 0..100

\* Step 6, first half: _executeDecision up to await suggestion.save()
SaveSuggestion(r) ==
    LET run == runs[r]
        t == run.ticketId
        ran == [run EXCEPT !.steps = Append(@, "execute")]
        found == Matching(t, run.trace, "AGENT_CLASSIFIED")
        classification == auditLog[Least(found)].meta
        articles == GetArticlesFromLogs(t, run.trace)
        draft == GetDraftFromLogs(t, run.trace)
        suggestion ==
            [ticketId |-> t,
             predictedCategory |-> classification.predictedCategory,
             articleIds |-> articles,
             draftReply |-> draft,
             confidence |-> classification.confidence,
             autoClosed |-> (run.decision = "auto_close"),
             traceId |-> run.trace]
        err == IF found = {} THEN NullError
               ELSE IF run.fault = "suggestionSave" THEN DbError
               ELSE IF ~SuggestionAccepts(suggestion) THEN ValidationError("AgentSuggestion")
               ELSE NoError
    IN  /\ run.pc = "execute"
        /\ suggestions' = IF err = NoError THEN Append(suggestions, suggestion)
                          ELSE suggestions
        /\ runs' = [runs EXCEPT ![r] =
               IF err = NoError
               THEN [ran EXCEPT !.pc = "apply", !.logDraft = draft,
                                !.suggestionId = Len(suggestions) + 1,
                                !.doc.agentSuggestionId = Len(suggestions) + 1]
               ELSE Failed(ran, err)]
        /\ UNCHANGED <<response, env, tickets, auditLog, config, users, nextTrace>>

\* User.findOne({role: 'agent'}): the first account with that role
AgentsIn(us) == {i \in 1..Len(us) : Role(us[i]) = "agent"}
FindAgent(us) == IF AgentsIn(us) = {} THEN NoUser ELSE us[Least(AgentsIn(us))]

\* _getSystemUserId: the account system@helpdesk.local, created if missing
WithSystemUser(us) ==
    IF SystemUser \in Range(us) THEN us ELSE Append(us, SystemUser)

\* ticket.save() writes the paths the run changed on its copy of the
\* document: agentSuggestionId, status and assignee where they differ from
\* what it loaded, and the reply it pushed
SaveTicket(stored, loaded, changed) ==
    [stored EXCEPT
        !.agentSuggestionId = changed.agentSuggestionId,
        !.status = IF changed.status # loaded.status THEN changed.status ELSE @,
        !.assignee = IF changed.assignee # loaded.assignee THEN changed.assignee ELSE @,
        !.replies = IF Len(changed.replies) > Len(loaded.replies)
                    THEN Append(@, changed.replies[Len(changed.replies)]) ELSE @]

\* Step 6, second half: the branch of the decision, its audit entry,
\* then await ticket.save()
ApplyDecision(r) ==
    LET run == runs[r]
        t == run.ticketId
        auto == run.decision = "auto_close"
        agent == FindAgent(users)
        closed == [run.doc EXCEPT
                      !.status = "resolved",
                      !.replies = Append(@, [author |-> SystemUser,
                                             content |-> run.logDraft,
                                             isAgentGenerated |-> TRUE])]
        waiting == [run.doc EXCEPT
                       !.status = "waiting_human",
                       !.assignee = IF agent # NoUser THEN agent ELSE @]
        changed == IF auto THEN closed ELSE waiting
        action == IF auto THEN "AUTO_CLOSED" ELSE "ASSIGNED_TO_HUMAN"
        meta == [NoMeta EXCEPT !.suggestionId = run.suggestionId,
                               !.confidence = run.classification.confidence,
                               !.assigneeId = IF auto THEN NoUser ELSE agent]
        logErr == LogError(run, "terminalLog", action)
        err == IF logErr # NoError THEN logErr
               ELSE IF run.fault = "ticketSave" THEN DbError
               ELSE NoError
    IN  /\ run.pc = "apply"
        /\ users' = IF auto THEN WithSystemUser(users) ELSE users
        /\ auditLog' = IF logErr = NoError
                       THEN Append(auditLog,
                              AuditEntry(t, run.trace, "system", action, meta))
                       ELSE auditLog
        /\ tickets' = IF err = NoError
                      THEN [tickets EXCEPT ![t] =
                              SaveTicket(tickets[t], run.doc, changed)]
                      ELSE tickets
        /\ runs' = [runs EXCEPT ![r] =
               IF err = NoError
               THEN [run EXCEPT !.pc = "done", !.doc = changed, !.result = "success"]
               ELSE Failed([run EXCEPT !.doc = changed], err)]
        /\ UNCHANGED <<response, env, suggestions, config, nextTrace>>

----------------------------------------------------------------------------
(* What starts a run. A request a route answers with 4xx changes nothing    *)
(* and is no step of the model.                                             *)

Faults == {"none", "load"}
\* "loadOnce": the database fails the first attempt's findById only
RetryFaults == {"none", "load", "loadOnce"}

\* authorize('agent', 'admin'): the accounts people sign in with
Staff == {u \in Range(users) : Role(u) \in {"agent", "admin"} /\ u # SystemUser}

\* The statuses POST /api/agent/triage lets through
Triageable == {"open", "waiting_human"}

\* A caller of the service: agentService.triageTicket(ticketId), no trace id
CallTriage(r, t, fault) ==
    /\ FreeRun(r)
    /\ runs' = [runs EXCEPT ![r] = StartedRun("direct", t, nextTrace, fault, 1)]
    /\ nextTrace' = nextTrace + 1
    /\ UNCHANGED <<response, env, tickets, suggestions, auditLog, config, users>>

\* POST /api/agent/triage: the handler checks the ticket, then awaits
\* agentService.triageTicket(ticketId, req.traceId)
RouteTriage(r, t, fault) ==
    /\ FreeRun(r)
    /\ Staff # {}
    /\ tickets[t].exists
    /\ tickets[t].status \in Triageable
    /\ runs' = [runs EXCEPT ![r] = StartedRun("manual", t, nextTrace, fault, 1)]
    /\ nextTrace' = nextTrace + 1
    /\ UNCHANGED <<response, env, tickets, suggestions, auditLog, config, users>>

\* POST /api/agent/retry/:ticketId: agentService.retryTriage(ticketId, 3)
RouteRetry(r, t, fault) ==
    /\ FreeRun(r)
    /\ Staff # {}
    /\ tickets[t].exists
    /\ runs' = [runs EXCEPT ![r] = StartedRun("retry", t, nextTrace, fault, MaxRetries)]
    /\ nextTrace' = nextTrace + 1
    /\ UNCHANGED <<response, env, tickets, suggestions, auditLog, config, users>>

\* A caller of the service: agentService.retryTriage(ticketId, maxRetries)
CallRetry(r, t, maxRetries, fault) ==
    /\ FreeRun(r)
    /\ runs' = [runs EXCEPT ![r] = StartedRun("retry", t, nextTrace, fault, maxRetries)]
    /\ nextTrace' = nextTrace + 1
    /\ UNCHANGED <<response, env, tickets, suggestions, auditLog, config, users>>

\* POST /api/tickets: save the ticket, log TICKET_CREATED, then
\* setImmediate(() => agentService.triageTicket(ticket._id, traceId))
CreateTicket(r, t, text, category) ==
    /\ FreeRun(r)
    /\ ~tickets[t].exists
    /\ \A q \in TicketIds : q < t => tickets[q].exists
    /\ Len(auditLog) < MaxLog
    /\ tickets' = [tickets EXCEPT ![t] = NewTicket(text, category)]
    /\ auditLog' = IF AuditAccepts("TICKET_CREATED")
                   THEN Append(auditLog,
                          AuditEntry(t, nextTrace, "user", "TICKET_CREATED", NoMeta))
                   ELSE auditLog
    /\ runs' = [runs EXCEPT ![r] =
           IF AuditAccepts("TICKET_CREATED")
           THEN StartedRun("create", t, nextTrace, "none", 1)
           ELSE runs[r]]
    /\ nextTrace' = nextTrace + 1
    /\ UNCHANGED <<response, env, suggestions, config, users>>

----------------------------------------------------------------------------
(* routes/tickets.js and routes/config.js: the lifecycle routes. Each saves  *)
(* its document first and writes its audit entry afterwards; a rejected     *)
(* audit write ends the request with 500 and leaves the saved document.     *)

RouteLog(t, actor, action) ==
    IF AuditAccepts(action)
    THEN Append(auditLog, AuditEntry(t, ReqTrace, actor, action, NoMeta))
    ELSE auditLog

ReplyStatuses == {"none", "open", "waiting_human", "resolved", "closed"}

\* POST /api/tickets/:id/reply
Reply(t, u, status) ==
    LET ticket == tickets[t]
        replied == [ticket EXCEPT !.replies =
                       Append(@, [author |-> u, content |-> HumanText,
                                  isAgentGenerated |-> FALSE])]
        updated == IF status # "none" THEN [replied EXCEPT !.status = status]
                   ELSE replied
        saved == IF status = "resolved" /\ ticket.assignee = NoUser
                 THEN [updated EXCEPT !.assignee = u] ELSE updated
    IN  /\ u \in Staff
        /\ ticket.exists
        /\ Len(ticket.replies) < MaxReplies
        /\ Len(auditLog) < MaxLog
        /\ tickets' = [tickets EXCEPT ![t] = saved]
        /\ auditLog' = RouteLog(t, "agent", "REPLY_SENT")
        /\ UNCHANGED <<response, env, suggestions, config, users, runs, nextTrace>>

\* POST /api/tickets/:id/assign
Assign(t, u, assigneeId) ==
    LET ticket == tickets[t]
    IN  /\ u \in Staff
        /\ ticket.exists
        /\ assigneeId \in Range(users)
        /\ Role(assigneeId) \in {"agent", "admin"}
        /\ tickets' = [tickets EXCEPT ![t] =
               [ticket EXCEPT !.assignee = assigneeId, !.status = "waiting_human"]]
        /\ auditLog' = RouteLog(t, "agent", "TICKET_ASSIGNED")
        /\ UNCHANGED <<response, env, suggestions, config, users, runs, nextTrace>>

\* POST /api/tickets/:id/reopen
Reopen(t, u) ==
    LET ticket == tickets[t]
    IN  /\ u \in Range(users)
        /\ ticket.exists
        /\ Len(auditLog) < MaxLog
        /\ ticket.status \in {"resolved", "closed"}
        /\ tickets' = [tickets EXCEPT ![t] = [ticket EXCEPT !.status = "waiting_human"]]
        /\ auditLog' = RouteLog(t, IF Role(u) = "user" THEN "user" ELSE "agent",
                                "TICKET_REOPENED")
        /\ UNCHANGED <<response, env, suggestions, config, users, runs, nextTrace>>

\* POST /api/tickets/:id/close
Close(t, u) ==
    LET ticket == tickets[t]
        closed == [ticket EXCEPT !.status = "closed"]
    IN  /\ u \in Staff
        /\ ticket.exists
        /\ Len(auditLog) < MaxLog
        /\ tickets' = [tickets EXCEPT ![t] =
               IF ticket.assignee = NoUser THEN [closed EXCEPT !.assignee = u]
               ELSE closed]
        /\ auditLog' = RouteLog(t, "agent", "TICKET_CLOSED")
        /\ UNCHANGED <<response, env, suggestions, config, users, runs, nextTrace>>

\* PUT /api/config (admin only): fields not sent keep their value
UpdateConfig(u, enabled, threshold) ==
    LET old == IF config.exists THEN config ELSE NewConfig
    IN  /\ u \in Range(users)
        /\ Role(u) = "admin"
        /\ config' = [old EXCEPT !.autoCloseEnabled = enabled,
                                 !.confidenceThreshold = threshold]
        /\ auditLog' = IF AuditAccepts("CONFIG_UPDATED")
                       THEN Append(auditLog,
                              AuditEntry(0, ReqTrace, "agent", "CONFIG_UPDATED", NoMeta))
                       ELSE auditLog
        /\ UNCHANGED <<response, env, tickets, suggestions, users, runs, nextTrace>>

----------------------------------------------------------------------------
(* The program: the routes, the service's callers and the runs in progress *)

Next ==
    \/ \E r \in RunIds, t \in TicketIds, f \in Faults : CallTriage(r, t, f)
    \/ \E r \in RunIds, t \in TicketIds, f \in Faults : RouteTriage(r, t, f)
    \/ \E r \in RunIds, t \in TicketIds, f \in Faults : RouteRetry(r, t, f)
    \/ \E r \in RunIds, t \in TicketIds, n \in 1..MaxAttempts, f \in RetryFaults :
          CallRetry(r, t, n, f)
    \/ \E r \in RunIds, t \in TicketIds, text \in Texts, c \in Categories :
          CreateTicket(r, t, text, c)
    \/ \E r \in RunIds : Load(r)
    \/ \E r \in RunIds : Plan(r)
    \/ \E r \in RunIds : Catch(r)
    \/ \E r \in RunIds : Backoff(r)
    \/ \E t \in TicketIds, u \in UserIds, s \in ReplyStatuses : Reply(t, u, s)
    \/ \E t \in TicketIds, u \in UserIds, a \in UserIds : Assign(t, u, a)
    \/ \E t \in TicketIds, u \in UserIds : Reopen(t, u)
    \/ \E t \in TicketIds, u \in UserIds : Close(t, u)
    \/ \E u \in UserIds, e \in BOOLEAN : UpdateConfig(u, e, ConfigDefaultThreshold)

Spec == Init /\ [][Next]_vars

----------------------------------------------------------------------------
(* The server's triage triggers with two invocations in flight at once     *)

RaceRunIds == 1..MaxRaceRun

RaceInit ==
    /\ tickets \in [TicketIds -> {NoTicket} \cup {NewTicket(text, "other") : text \in Texts}]
    /\ suggestions = <<>>
    /\ auditLog = <<>>
    /\ config = NewConfig
    /\ users = SeedUsers
    /\ env = NoEnv
    /\ runs = [r \in RaceRunIds |-> IdleRun]
    /\ nextTrace = 1
    /\ response = NoResponse

RaceNext ==
    \/ \E r \in RaceRunIds, t \in TicketIds, f \in Faults : RouteTriage(r, t, f)
    \/ \E r \in RaceRunIds, t \in TicketIds, f \in Faults : RouteRetry(r, t, f)
    \/ \E r \in RaceRunIds, t \in TicketIds, text \in Texts, c \in Categories :
          CreateTicket(r, t, text, c)
    \/ \E r \in RaceRunIds : Load(r)
    \/ \E r \in RaceRunIds : Plan(r)
    \/ \E r \in RaceRunIds : Catch(r)
    \/ \E r \in RaceRunIds : Backoff(r)

RaceSpec == RaceInit /\ [][RaceNext]_vars

----------------------------------------------------------------------------
(* The step methods applied in triageTicket's order, inside its try/catch, *)
(* to a ticket loaded from the store.                                      *)

StepFaults == {"none", "draft", "suggestionSave", "ticketSave"}

\* ticket = await Ticket.findById(ticketId); the steps start at step 2
StartSteps(r, t, fault) ==
    /\ FreeRun(r)
    /\ \A q \in DOMAIN runs : q < r => runs[q].pc = "done"
    /\ tickets[t].exists
    /\ runs' = [runs EXCEPT ![r] =
           [StartedRun("steps", t, nextTrace, fault, 1) EXCEPT
               !.pc = "classify", !.doc = tickets[t], !.loaded = tickets[t]]]
    /\ nextTrace' = nextTrace + 1
    /\ UNCHANGED <<response, env, tickets, suggestions, auditLog, config, users>>

\* await this._executeDecision(ticket, decision, trace) with the decision
\* lines 199-215 of _makeTriageDecision compute
DriveExecute(r) ==
    LET run == runs[r]
    IN  /\ run.pc = "decide"
        /\ runs' = [runs EXCEPT ![r] =
               [run EXCEPT !.pc = "execute",
                           !.decision = DecisionAction(EffectiveConfig,
                                            run.classification.confidence)]]
        /\ UNCHANGED <<response, env, tickets, suggestions, auditLog, config, users, nextTrace>>

\* Edits of a draft that went through, by their audit entries
Edits == {i \in 1..Len(auditLog) : auditLog[i].action = "SUGGESTION_EDITED"}

\* An edit route without the check of autoClosed
EditAllowedAlways(suggestion) == TRUE
\* if (suggestion.autoClosed) return res.status(400)
EditAllowed(suggestion) == ~suggestion.autoClosed

\* PUT /api/agent/suggestion/:suggestionId with a valid draftReply, for a
\* suggestion that exists
EditSuggestion(u, id) ==
    /\ u \in Staff
    /\ id \in 1..Len(suggestions)
    /\ IF EditAllowed(suggestions[id])
       THEN /\ Cardinality(Edits) < MaxEdits
            /\ suggestions' = [suggestions EXCEPT ![id].draftReply = EditedText]
            /\ auditLog' = Append(auditLog,
                   AuditEntry(suggestions[id].ticketId, ReqTrace, "agent",
                              "SUGGESTION_EDITED",
                              [NoMeta EXCEPT !.suggestionId = id]))
            /\ response' = [code |-> 200, suggestionId |-> id]
       ELSE /\ response' = [code |-> 400, suggestionId |-> id]
            /\ UNCHANGED <<suggestions, auditLog>>
    /\ UNCHANGED <<env, tickets, config, users, runs, nextTrace>>

StepConfigs ==
    {NoConfig} \cup
    {[exists |-> TRUE, autoCloseEnabled |-> e, confidenceThreshold |-> th] :
        e \in BOOLEAN, th \in Thresholds}

StepInit ==
    /\ tickets \in [TicketIds -> {NewTicket(text, "other") : text \in Texts}]
    /\ suggestions = <<>>
    /\ auditLog = <<>>
    /\ config \in StepConfigs
    /\ users \in UserSets
    /\ env \in {StubEnv, [StubEnv EXCEPT !.autoClose = TRUE]}
    /\ runs = [r \in StepRunIds |-> IdleRun]
    /\ nextTrace = 1
    /\ response = NoResponse

StepNext ==
    \/ \E r \in StepRunIds, t \in TicketIds, f \in StepFaults : StartSteps(r, t, f)
    \/ \E r \in StepRunIds : Classify(r)
    \/ \E r \in StepRunIds : Retrieve(r)
    \/ \E r \in StepRunIds : Draft(r)
    \/ \E r \in StepRunIds : Decide(r)
    \/ \E r \in StepRunIds : DriveExecute(r)
    \/ \E r \in StepRunIds : SaveSuggestion(r)
    \/ \E r \in StepRunIds : ApplyDecision(r)
    \/ \E r \in StepRunIds : Catch(r)
    \/ \E u \in UserIds, id \in 1..(MaxStepRun + 1) : EditSuggestion(u, id)

StepSpec == StepInit /\ [][StepNext]_vars

----------------------------------------------------------------------------
(* The classify step alone, on every text up to MaxMatch keywords of each  *)
(* category, with either provider.                                         *)

ClassifyRunIds == 1..MaxClassifyRun

TextTriples == {<<b, t, s>> : b \in 0..MaxMatch, t \in 0..MaxMatch, s \in 0..MaxMatch}

\* "classify": the database fails the step's audit write
ClassifyFaults == {"none", "classify"}

ClassifyInit ==
    /\ tickets \in [TicketIds -> {NewTicket(text, c) : text \in TextTriples,
                                                       c \in {"other", "shipping"}}]
    /\ suggestions = <<>>
    /\ auditLog = <<>>
    /\ config = NewConfig
    /\ users = SeedUsers
    /\ env \in {StubEnv, NoEnv}
    /\ runs = [r \in ClassifyRunIds |-> IdleRun]
    /\ nextTrace = 1
    /\ response = NoResponse

ClassifyNext ==
    \/ \E r \in ClassifyRunIds, t \in TicketIds, f \in ClassifyFaults : StartSteps(r, t, f)
    \/ \E r \in ClassifyRunIds : Classify(r)

ClassifySpec == ClassifyInit /\ [][ClassifyNext]_vars

----------------------------------------------------------------------------
(* The step methods applied in order while the settings route, the close   *)
(* route and the reply route act on the same ticket.                       *)

OpsRunIds == 1..MaxOpsRun

OpsInit ==
    /\ tickets \in [TicketIds -> {NewTicket(text, "other") : text \in Texts}]
    /\ suggestions = <<>>
    /\ auditLog = <<>>
    /\ config \in {NoConfig, NewConfig}
    /\ users \in UserSets
    /\ env = StubEnv
    /\ runs = [r \in OpsRunIds |-> IdleRun]
    /\ nextTrace = 1
    /\ response = NoResponse

OpsNext ==
    \/ \E r \in OpsRunIds, t \in TicketIds : StartSteps(r, t, "none")
    \/ \E r \in OpsRunIds : Classify(r)
    \/ \E r \in OpsRunIds : Retrieve(r)
    \/ \E r \in OpsRunIds : Draft(r)
    \/ \E r \in OpsRunIds : Decide(r)
    \/ \E r \in OpsRunIds : DriveExecute(r)
    \/ \E r \in OpsRunIds : SaveSuggestion(r)
    \/ \E r \in OpsRunIds : ApplyDecision(r)
    \/ \E r \in OpsRunIds : Catch(r)
    \/ \E u \in UserIds, e \in BOOLEAN, th \in Thresholds : UpdateConfig(u, e, th)
    \/ \E t \in TicketIds, u \in UserIds : Close(t, u)
    \/ \E t \in TicketIds, u \in UserIds : Reply(t, u, "resolved")

OpsSpec == OpsInit /\ [][OpsNext]_vars

----------------------------------------------------------------------------
(* The step methods applied in order with the remote provider selected:    *)
(* STUB_MODE is not 'true', so classify and draft post to the model's API. *)

RemoteRunIds == 1..MaxRemoteRun

RemoteInit ==
    /\ tickets \in [TicketIds -> {NewTicket(text, "other") : text \in Texts}]
    /\ suggestions = <<>>
    /\ auditLog = <<>>
    /\ config \in {[exists |-> TRUE, autoCloseEnabled |-> TRUE, confidenceThreshold |-> th] :
                      th \in Thresholds}
    /\ users = SeedUsers
    /\ env = NoEnv
    /\ runs = [r \in RemoteRunIds |-> IdleRun]
    /\ nextTrace = 1
    /\ response = NoResponse

RemoteNext ==
    \/ \E r \in RemoteRunIds, t \in TicketIds, f \in StepFaults : StartSteps(r, t, f)
    \/ \E r \in RemoteRunIds : Classify(r)
    \/ \E r \in RemoteRunIds : Retrieve(r)
    \/ \E r \in RemoteRunIds : Draft(r)
    \/ \E r \in RemoteRunIds : DriveExecute(r)
    \/ \E r \in RemoteRunIds : SaveSuggestion(r)
    \/ \E r \in RemoteRunIds : ApplyDecision(r)
    \/ \E r \in RemoteRunIds : Catch(r)

RemoteSpec == RemoteInit /\ [][RemoteNext]_vars

----------------------------------------------------------------------------
(* Runs started by POST /api/agent/triage with the remote provider: the    *)
(* request's trace id is the x-trace-id header when the caller sends one.  *)

TraceRunIds == 1..MaxTraceRun

\* const traceId = req.headers["x-trace-id"] || randomUUID();
\* agentService.triageTicket(ticketId, req.traceId), from step 2 on
StartTraced(r, t, supplied) ==
    LET trace == IF supplied THEN ReqTrace ELSE nextTrace
    IN  /\ FreeRun(r)
        /\ \A q \in DOMAIN runs : q < r => runs[q].pc = "done"
        /\ Staff # {}
        /\ tickets[t].exists
        /\ tickets[t].status \in Triageable
        /\ runs' = [runs EXCEPT ![r] =
               [StartedRun("manual", t, trace, "none", 1) EXCEPT
                   !.pc = "classify", !.doc = tickets[t], !.loaded = tickets[t]]]
        /\ nextTrace' = IF supplied THEN nextTrace ELSE nextTrace + 1
        /\ UNCHANGED <<response, env, tickets, suggestions, auditLog, config, users>>

TraceInit ==
    /\ tickets \in [TicketIds -> {NewTicket(text, "other") : text \in Texts}]
    /\ suggestions = <<>>
    /\ auditLog = <<>>
    /\ config \in {[NewConfig EXCEPT !.autoCloseEnabled = e] : e \in BOOLEAN}
    /\ users = SeedUsers
    /\ env = NoEnv
    /\ runs = [r \in TraceRunIds |-> IdleRun]
    /\ nextTrace = 1
    /\ response = NoResponse

TraceNext ==
    \/ \E r \in TraceRunIds, t \in TicketIds, s \in BOOLEAN : StartTraced(r, t, s)
    \/ \E r \in TraceRunIds : Classify(r)
    \/ \E r \in TraceRunIds : Retrieve(r)
    \/ \E r \in TraceRunIds : Draft(r)
    \/ \E r \in TraceRunIds : DriveExecute(r)
    \/ \E r \in TraceRunIds : SaveSuggestion(r)
    \/ \E r \in TraceRunIds : ApplyDecision(r)
    \/ \E r \in TraceRunIds : Catch(r)

TraceSpec == TraceInit /\ [][TraceNext]_vars

----------------------------------------------------------------------------
(* Properties *)

Finished(r) == runs[r].pc = "done"

\* The step of the run's last await: the caller gets its result or its error
RunEnds(r) == runs[r].pc # "done" /\ runs'[r].pc = "done"

\* The audit entries stored under the run's trace id for its ticket, as actions
ActionsOf(run) ==
    LET own == SelectSeq(auditLog, LAMBDA e : e.ticketId = run.ticketId
                                             /\ e.traceId = run.trace
                                             /\ e.actor = "system")
    IN  [i \in 1..Len(own) |-> own[i].action]

\* A run without an injected fault, asked for by a caller of the service or
\* the manual route, on a ticket it loaded in a status triage is allowed in
Regular(run) ==
    /\ run.via \in {"direct", "manual"}
    /\ run.fault = "none"
    /\ run.doc.exists
    /\ run.doc.status \in Triageable

\* C1: the decide step returns a decision, and it is auto_close exactly when
\* auto-close is enabled and the confidence is at least the threshold
\* (equality included), assign_human otherwise.
C1_DecideReturnsRuleDecision ==
    \A r \in DOMAIN runs :
        ("decide" \in Range(runs[r].steps) /\ runs[r].fault = "none")
        => runs[r].decision =
              DecisionAction(EffectiveConfig, runs[r].classification.confidence)

\* C2: triage called without a trace id on an existing open ticket, with the
\* rule-based classifier and no fault, ends with success, a generated trace
\* id, the ticket's id, a confidence in [0,1] and one of the two decisions.
C2_OpenTicketTriageSucceeds ==
    \A r \in RunIds :
        (/\ Finished(r)
         /\ runs[r].via = "direct"
         /\ runs[r].fault = "none"
         /\ runs[r].doc.exists
         /\ runs[r].doc.status = "open")
        => /\ runs[r].result = "success"
           /\ runs[r].error = NoError
           /\ runs[r].trace >= 1
           /\ runs[r].ticketId \in TicketIds
           /\ runs[r].classification.confidence \in 0..100
           /\ runs[r].decision \in {"auto_close", "assign_human"}

C4_SuggestionsMatchSuccesses ==
    \A t \in TicketIds :
        (\A r \in DOMAIN runs : runs[r].pc \in {"idle", "done"})
        => Cardinality(SuggestionsOf(t)) =
              Cardinality({r \in DOMAIN runs : /\ runs[r].ticketId = t
                                               /\ runs[r].result = "success"})

\* The reply a run's auto-close pushed onto its copy of the ticket
LastReply(doc) == doc.replies[Len(doc.replies)]

C7_StoredDraftIsOwnDraft ==
    \A r \in DOMAIN runs :
        runs[r].result = "success"
        => /\ suggestions[runs[r].suggestionId].draftReply = runs[r].draft
           /\ runs[r].decision = "auto_close"
                => LastReply(runs[r].doc).content = runs[r].draft

\* C8: when a step fails after the ticket was loaded, the run does no later
\* step, stores exactly one TRIAGE_FAILED entry with that error's message
\* under its trace id, and hands the caller that same error.
C8_FailureLoggedAndRethrown ==
    \A r \in RunIds :
        LET run == runs[r]
            failures == {i \in Matching(run.ticketId, run.trace, "TRIAGE_FAILED") :
                            auditLog[i].meta.error = run.raised}
        IN  (/\ Finished(r)
             /\ run.via # "retry"
             /\ run.doc.exists
             /\ run.raised # NoError)
            => /\ Cardinality(Matching(run.ticketId, run.trace, "TRIAGE_FAILED")) = 1
               /\ Cardinality(failures) = 1
               /\ run.error = run.raised

\* C9: however triage is asked for (manual route, retry route, on creation),
\* a run that finds its ticket resolved or closed does no step at all.
C9_ClosedTicketNoStep ==
    \A r \in RunIds :
        (/\ runs[r].via \in {"manual", "retry", "create"}
         /\ runs[r].doc.exists
         /\ runs[r].doc.status \in {"resolved", "closed"})
        => runs[r].steps = <<>>

\* C10: triage on an id no ticket has raises Ticket not found at once: no
\* step runs, and no ticket, suggestion, audit entry, setting or account
\* is created or changed.
C10_MissingTicketNotFound ==
    [][\A r \in RunIds :
          (/\ runs[r].pc = "load"
           /\ runs'[r] # runs[r]
           /\ runs[r].via # "retry"
           /\ runs[r].fault = "none"
           /\ ~tickets[runs[r].ticketId].exists)
          => /\ runs'[r].pc = "done"
             /\ runs'[r].result = "error"
             /\ runs'[r].error = NotFoundError
             /\ runs'[r].steps = <<>>
             /\ UNCHANGED <<tickets, suggestions, auditLog, config, users>>]_vars

C10_Witness ==
    \E r \in RunIds :
        /\ Finished(r)
        /\ runs[r].fault = "none"
        /\ ~tickets[runs[r].ticketId].exists
        /\ runs[r].error = NotFoundError
        /\ runs[r].steps = <<>>
        /\ auditLog = <<>>

----------------------------------------------------------------------------
(* retryTriage *)

Distinct(seq) == \A i, j \in 1..Len(seq) : i # j => seq[i] # seq[j]

\* C11: retryTriage(ticketId, maxAttempts) whose every attempt failed has
\* made exactly maxAttempts attempts, each under a run id of its own, and
\* has raised one error: it carries maxAttempts and the message of the last
\* attempt's error. Until then the caller has received nothing.
C11_RetryExhausts ==
    \A r \in RunIds :
        LET run == runs[r]
        IN  run.via = "retry" =>
              /\ Len(run.traces) = run.attempt
              /\ Distinct(run.traces)
              /\ run.trace = run.traces[run.attempt]
              /\ run.pc # "done" => run.result = "none"
              /\ (run.pc = "done" /\ run.result = "error") =>
                    /\ run.attempt = run.attempts
                    /\ run.error[1] = "Error"
                    /\ run.error[3] = run.attempts
                    /\ run.error[4] = run.lastError[2]
                    /\ run.lastError # NoError

C11_Witness ==
    \E r \in RunIds :
        /\ runs[r].via = "retry"
        /\ runs[r].pc = "done"
        /\ runs[r].result = "error"
        /\ runs[r].attempts = MaxAttempts
        /\ Len(runs[r].traces) = MaxAttempts
        /\ runs[r].error[4] = "TRIAGE_FAILED"

C13_BackoffDoubles ==
    \A r \in RunIds :
        LET run == runs[r]
        IN  /\ \A k \in 1..Len(run.waits) : run.waits[k] = (2 ^ k) * 1000
            /\ run.via # "retry" => run.waits = <<>>
            /\ run.via = "retry" =>
                  Len(run.waits) = IF run.pc = "backoff" THEN run.attempt
                                   ELSE run.attempt - 1
            /\ (run.via = "retry" /\ run.pc = "done") =>
                  Len(run.waits) < run.attempts

C13_Witness ==
    \E r \in RunIds :
        /\ runs[r].via = "retry"
        /\ runs[r].pc = "done"
        /\ runs[r].attempts = MaxAttempts
        /\ runs[r].waits = <<2000, 4000>>

----------------------------------------------------------------------------
(* The lifecycle of a ticket *)

\* The edges the status of a ticket may take: by a pipeline run, by reopen,
\* by close, by a human reply
StatusEdges ==
    ({"open", "waiting_human"} \X {"resolved", "waiting_human"})
    \cup ({"resolved", "closed"} \X {"waiting_human"})
    \cup ((TicketStatuses \ {"closed"}) \X {"closed"})
    \cup {<<"waiting_human", "resolved">>}

\* C16: over any sequence of operations every change of a ticket's status
\* follows one of the edges: open or waiting_human to resolved or
\* waiting_human, resolved or closed to waiting_human, a status other than
\* closed to closed, waiting_human to resolved.
C16_StatusFollowsEdges ==
    [][\A t \in TicketIds :
          (tickets[t].exists /\ tickets'[t].status # tickets[t].status)
          => <<tickets[t].status, tickets'[t].status>> \in StatusEdges]_vars

----------------------------------------------------------------------------
(* Suggestions *)

\* C17: a suggestion is created only by the execute step and changes only
\* through an accepted edit of its draft, which changes draftReply and
\* nothing else; an edit of a suggestion whose autoClosed is true is
\* answered with 400 and leaves the suggestions and the audit log as they
\* were.
C17_SuggestionChangesOnlyByEdit ==
    [][/\ Len(suggestions') >= Len(suggestions)
       /\ Len(suggestions') > Len(suggestions) =>
             /\ Len(suggestions') = Len(suggestions) + 1
             /\ \E r \in DOMAIN runs :
                   /\ runs[r].pc = "execute"
                   /\ runs'[r].pc = "apply"
                   /\ runs'[r].suggestionId = Len(suggestions')
       /\ \A i \in 1..Len(suggestions) :
             /\ [suggestions'[i] EXCEPT !.draftReply = suggestions[i].draftReply]
                   = suggestions[i]
             /\ suggestions[i].autoClosed => suggestions'[i] = suggestions[i]
             /\ suggestions'[i] # suggestions[i] =>
                   /\ response' = [code |-> 200, suggestionId |-> i]
                   /\ Len(suggestions') = Len(suggestions)
       /\ (response' # response /\ response'.suggestionId \in 1..Len(suggestions)) =>
             (suggestions[response'.suggestionId].autoClosed =>
                /\ response'.code = 400
                /\ UNCHANGED <<suggestions, auditLog>>)]_vars

C17_Witness ==
    /\ response.code = 400
    /\ response.suggestionId \in 1..Len(suggestions)
    /\ suggestions[response.suggestionId].autoClosed

----------------------------------------------------------------------------
(* The audit log *)

----------------------------------------------------------------------------
(* The provider *)

C20_ClassificationInRange ==
    \A r \in DOMAIN runs :
        "classify" \in Range(runs[r].steps) =>
            /\ runs[r].classification.predictedCategory \in Categories
            /\ runs[r].classification.confidence \in 0..100

----------------------------------------------------------------------------
(* Invocations that overlap *)

RunsOn(t) == {r \in DOMAIN runs : runs[r].pc # "idle" /\ runs[r].ticketId = t}

----------------------------------------------------------------------------
(* The rule-based classifier *)

\* A run whose classify step got its result from _stubClassify
StubClassified(run) ==
    /\ "classify" \in Range(run.steps)
    /\ run.remote # "json"

CategoryOrder == <<"billing", "tech", "shipping">>

\* C21: for every triple of match counts the rule-based classifier gives
\* other when all three are zero, and otherwise the first category in the
\* order billing, tech, shipping whose count is the highest.
C21_HighestCountFirstInOrder ==
    \A r \in DOMAIN runs :
        LET run == runs[r]
            text == tickets[run.ticketId].text
            top == Max3(text[1], text[2], text[3])
            first == Least({i \in 1..3 : text[i] = top})
        IN  StubClassified(run) =>
              run.classification.predictedCategory =
                 IF top = 0 THEN "other" ELSE CategoryOrder[first]

C21_Witness ==
    \E r \in DOMAIN runs :
        LET text == tickets[runs[r].ticketId].text
        IN  /\ StubClassified(runs[r])
            /\ text[1] < text[2]
            /\ text[2] = text[3]
            /\ runs[r].classification.predictedCategory = "tech"

\* The match count of the category the classifier chose
MatchCount(run) ==
    LET text == tickets[run.ticketId].text
    IN  Max3(text[1], text[2], text[3])

\* C22 as stated: for every text the confidence is
\* min(0.9, 0.6 + 0.1 * matchCount), matchCount being zero when no keyword
\* matches.
C22_ConfidenceFormula ==
    \A r \in DOMAIN runs :
        StubClassified(runs[r]) =>
            runs[r].classification.confidence =
                Min2(90, 60 + 10 * MatchCount(runs[r]))

\* C22, amended: the confidence is min(0.9, 0.6 + 0.1 * matchCount) when at
\* least one keyword matches, and 0.5 when none does; it never exceeds 0.9.
C22_ConfidenceFormulaOrHalf ==
    \A r \in DOMAIN runs :
        StubClassified(runs[r]) =>
            /\ runs[r].classification.confidence =
                  IF MatchCount(runs[r]) = 0 THEN 50
                  ELSE Min2(90, 60 + 10 * MatchCount(runs[r]))
            /\ runs[r].classification.confidence <= 90

C22_Witness ==
    \E r \in DOMAIN runs :
        /\ StubClassified(runs[r])
        /\ MatchCount(runs[r]) = MaxMatch
        /\ runs[r].classification.confidence = 90

\* C24: a classify step that completes leaves the ticket's stored category
\* equal to the predicted one when the confidence is above 0.7 and as it was
\* when the confidence is 0.7 or less; it changes no other field, and the
\* category is stored when the run stands before its retrieve step.
C24_CategoryUpdatedAboveSevenTenths ==
    [][\A r \in DOMAIN runs :
          (runs[r].pc = "classify" /\ runs'[r].pc = "retrieve") =>
             LET c == runs'[r].classification
                 t == runs[r].ticketId
             IN  tickets'[t] =
                    [tickets[t] EXCEPT !.category =
                        IF c.confidence > 70 THEN c.predictedCategory ELSE @]]_vars

C24_Witness ==
    \E r \in DOMAIN runs :
        /\ runs[r].pc = "retrieve"
        /\ runs[r].classification.confidence = 70
        /\ runs[r].classification.predictedCategory = "billing"
        /\ tickets[runs[r].ticketId].category = "other"

----------------------------------------------------------------------------
(* What a failed run leaves behind *)

\* The latest run: no later one has begun
Latest(r) == \A q \in DOMAIN runs : q > r => runs[q].pc = "idle"

\* A run whose classify step stored a new category and that ended in error
\* in a later step
FailedAfterClassify(r) ==
    /\ Finished(r)
    /\ runs[r].result = "error"
    /\ "retrieve" \in Range(runs[r].steps)
    /\ runs[r].classification.confidence > 70
    /\ runs[r].classification.predictedCategory # runs[r].loaded.category

\* C23: when the classify step stored a new category and a later step of the
\* run fails, then once the run has ended in error the ticket has the new
\* category, and its status, replies, assignee, suggestion link and every
\* other field are as the run loaded them.
C23_CompletedStepsKept ==
    \A r \in DOMAIN runs :
        (FailedAfterClassify(r) /\ Latest(r)) =>
            tickets[runs[r].ticketId] =
                [runs[r].loaded EXCEPT
                    !.category = runs[r].classification.predictedCategory]

C23_Witness ==
    \E r \in DOMAIN runs :
        /\ FailedAfterClassify(r)
        /\ Latest(r)
        /\ runs[r].fault = "ticketSave"
        /\ runs[r].suggestionId # 0
        /\ tickets[runs[r].ticketId].category = "billing"
        /\ tickets[runs[r].ticketId].agentSuggestionId = runs[r].loaded.agentSuggestionId

----------------------------------------------------------------------------
(* The audit store's enum *)

\* The action names the pipeline and the lifecycle routes write
AuditActionsWritten ==
    {"TRIAGE_STARTED", "AGENT_CLASSIFIED", "KB_RETRIEVED", "DRAFT_GENERATED",
     "DECISION_MADE", "AUTO_CLOSED", "ASSIGNED_TO_HUMAN", "TRIAGE_FAILED",
     "TICKET_CREATED", "REPLY_SENT", "TICKET_ASSIGNED", "TICKET_REOPENED",
     "TICKET_CLOSED", "SUGGESTION_EDITED", "CONFIG_UPDATED"}

\* C26: every action name an operation writes to the audit log is accepted by
\* the store, so no run fails because one of its audit writes was rejected.
C26_NoAuditWriteRejected ==
    \A r \in DOMAIN runs :
        ~(/\ runs[r].raised[1] = "ValidationError"
          /\ runs[r].raised[2] \in AuditActionsWritten)

----------------------------------------------------------------------------
(* The terminal entry of a run *)

\* The positions of a run's entries with one of the actions
EntriesOf(run, actions) ==
    {i \in 1..Len(auditLog) :
        /\ auditLog[i].ticketId = run.ticketId
        /\ auditLog[i].traceId = run.trace
        /\ auditLog[i].action \in actions}

TerminalActions == {"AUTO_CLOSED", "ASSIGNED_TO_HUMAN"}

\* C28: no run has both a terminal entry (AUTO_CLOSED or ASSIGNED_TO_HUMAN)
\* and a TRIAGE_FAILED entry; a run that has ended with a terminal entry
\* under its trace id returned success, and the ticket carries the link to
\* the run's suggestion.
C28_TerminalEntryMeansSuccess ==
    \A r \in DOMAIN runs :
        LET run == runs[r]
            terminal == EntriesOf(run, TerminalActions)
        IN  /\ ~(terminal # {} /\ EntriesOf(run, {"TRIAGE_FAILED"}) # {})
            /\ (Finished(r) /\ terminal # {}) =>
                  /\ run.result = "success"
                  /\ Latest(r) =>
                        tickets[run.ticketId].agentSuggestionId = run.suggestionId

----------------------------------------------------------------------------
(* Runs and the routes that act while they are in progress *)

\* C25: the decide step of a run leaves the settings as they are and creates
\* no record; the decision it returns is the rule applied to the settings
\* stored at that moment (the defaults when there is no record), whatever
\* they were when the run began; no later step of the run and no later
\* update of the settings changes that decision.
C25_DecisionFromConfigAtDecide ==
    [][\A r \in DOMAIN runs :
          /\ (runs[r].pc = "decide" /\ runs'[r].pc # "decide") =>
                /\ config' = config
                /\ runs'[r].decision =
                      DecisionAction(EffectiveConfig, runs[r].classification.confidence)
          /\ (runs[r].pc # "idle" /\ runs'[r] # runs[r]) => config' = config
          /\ runs[r].decision # "none" => runs'[r].decision = runs[r].decision]_vars

\* C27: the final save of a run does not replace a status that the close
\* route or a resolving reply stored after the run loaded the ticket.
C27_RunKeepsStatusSetMeanwhile ==
    [][\A r \in DOMAIN runs :
          LET t == runs[r].ticketId
          IN  (/\ runs[r].pc = "apply"
               /\ runs'[r].pc = "done"
               /\ tickets[t].status # runs[r].loaded.status
               /\ tickets[t].status \in {"closed", "resolved"})
              => tickets'[t].status = tickets[t].status]_vars

\* C30: no ticket has the system account as its assignee: the account a run
\* assigns is a human one with the role agent.
C30_SystemNeverAssignee ==
    \A t \in TicketIds :
        /\ tickets[t].assignee # SystemUser
        /\ tickets[t].assignee # NoUser => Role(tickets[t].assignee) \in {"agent", "admin"}

----------------------------------------------------------------------------
(* Suggestions and the classification of their run *)

\* C29: every stored suggestion has the predicted category and the
\* confidence that the classify step of the run that created it returned,
\* also when two runs on one ticket were started with the same trace id.
C29_SuggestionHasOwnClassification ==
    \A r \in DOMAIN runs :
        runs[r].suggestionId # 0 =>
            LET s == suggestions[runs[r].suggestionId]
            IN  /\ s.predictedCategory = runs[r].classification.predictedCategory
                /\ s.confidence = runs[r].classification.confidence

============================================================================
